---- MODULE Spec2Model ----
(***************************************************************************)
(* PiCal backend: the table definitions of package schemas, the SQL text   *)
(* generated from them, the tables server.initDatabase creates at startup, *)
(* and the rows the event functions (CreateEvent, DeleteEvent) and plain   *)
(* INSERTs leave in a database that enforces the generated constraints.    *)
(***************************************************************************)
EXTENDS Integers, Sequences, FiniteSets, TLC

\* ------------------------------------------------------------------ bounds
\* Events ever created (gen_random_uuid() ids are modelled as 1, 2, ...).
MaxEvents == 2
\* Timestamps of recurrenceID / startTime are 0..MaxTime.
MaxTime == 1
\* Rows held by the three tables together.
MaxRows == 3

\* ------------------------------------------------------- schema.go: types
\* A nil pointer is the empty set, a set pointer is a singleton.
Nil == {}
Ptr(v) == {v}

\* type ForeignKeyMatch struct; "" is the zero value of an optional action.
ForeignKeyMatch(target, column, onDelete) ==
    [TargetSchema |-> target, ColumnName |-> column, OnDelete |-> onDelete, OnUpdate |-> ""]

\* type Column struct with Go's zero values for the fields a literal omits.
Column(name, type) ==
    [Name |-> name, Type |-> type, PrimaryKey |-> FALSE, ForeignKey |-> <<>>,
     Nullable |-> FALSE, DefaultSQLExpr |-> Nil]

DefaultFalse == Ptr("FALSE")
DefaultTimezone == Ptr("'UTC'")
DefaultUUID == Ptr("gen_random_uuid()")

columnTypeToString(colType) ==
    CASE colType = "ColumnString" -> "varchar(255)"
      [] colType = "ColumnInt" -> "integer"
      [] colType = "ColumnBool" -> "boolean"
      [] colType = "ColumnTimestamp" -> "timestamptz"
      [] colType = "ColumnUUID" -> "uuid"
      [] OTHER -> "varchar(255)"

\* ------------------------------------------------ the three table schemas
CreateEventSchema ==
    [Name |-> "events",
     Columns |-> <<
        [Column("eventID", "ColumnUUID") EXCEPT !.PrimaryKey = TRUE, !.DefaultSQLExpr = DefaultUUID],
        Column("personName", "ColumnString"),
        Column("title", "ColumnString"),
        [Column("notes", "ColumnString") EXCEPT !.Nullable = TRUE],
        [Column("timezone", "ColumnString") EXCEPT !.DefaultSQLExpr = DefaultTimezone],
        [Column("allDay", "ColumnBool") EXCEPT !.DefaultSQLExpr = DefaultFalse],
        [Column("rrule", "ColumnString") EXCEPT !.Nullable = TRUE] >>]

CreateOccurrenceSchema ==
    [Name |-> "occurrences",
     Columns |-> <<
        [Column("eventID", "ColumnUUID") EXCEPT !.PrimaryKey = TRUE,
            !.ForeignKey = << ForeignKeyMatch("Events", "eventID", "CASCADE") >>],
        Column("startTime", "ColumnTimestamp"),
        [Column("endTime", "ColumnTimestamp") EXCEPT !.Nullable = TRUE],
        [Column("moved", "ColumnBool") EXCEPT !.DefaultSQLExpr = Ptr("FALSE")],
        [Column("oldStartTime", "ColumnTimestamp") EXCEPT !.Nullable = TRUE],
        [Column("oldEndTime", "ColumnTimestamp") EXCEPT !.Nullable = TRUE] >>]

\* The earlier revision of the exceptions schema: no ON DELETE action on the
\* foreign key, and newStart / newEnd not nullable.
CreateExceptionSchemaNoCascade ==
    [Name |-> "exceptions",
     Columns |-> <<
        [Column("eventID", "ColumnUUID") EXCEPT !.PrimaryKey = TRUE,
            !.ForeignKey = << ForeignKeyMatch("events", "eventID", "") >>],
        [Column("recurrenceID", "ColumnTimestamp") EXCEPT !.PrimaryKey = TRUE],
        Column("kind", "ColumnInt"),
        Column("newStart", "ColumnTimestamp"),
        Column("newEnd", "ColumnTimestamp") >>]

CreateExceptionSchema ==
    [Name |-> "exceptions",
     Columns |-> <<
        [Column("eventID", "ColumnUUID") EXCEPT !.PrimaryKey = TRUE,
            !.ForeignKey = << ForeignKeyMatch("events", "eventID", "CASCADE") >>],
        [Column("recurrenceID", "ColumnTimestamp") EXCEPT !.PrimaryKey = TRUE],
        Column("kind", "ColumnInt"),
        [Column("newStart", "ColumnTimestamp") EXCEPT !.Nullable = TRUE],
        [Column("newEnd", "ColumnTimestamp") EXCEPT !.Nullable = TRUE] >>]

\* --------------------------------------- schema.go: SQL text generation
\* The generated statement is kept as its comma-separated items, each item a
\* sequence of the parts the code joins with spaces.
Part(kw, arg) == [kw |-> kw, arg |-> arg]

RECURSIVE foreignKeyParts(_)
foreignKeyParts(fks) ==
    IF fks = <<>> THEN <<>>
    ELSE << Part("REFERENCES", << Head(fks).TargetSchema, Head(fks).ColumnName,
                                  Head(fks).OnDelete, Head(fks).OnUpdate >>) >>
         \o foreignKeyParts(Tail(fks))

\* A slip in the guard of the column-level constraint: the pkCount test is lost.
columnToStringAlwaysPK(col, pkCount) ==
    << Part("name", << col.Name >>), Part("type", << columnTypeToString(col.Type) >>) >>
    \o (IF col.PrimaryKey THEN << Part("PRIMARY KEY", <<>>) >> ELSE <<>>)
    \o (IF ~col.Nullable THEN << Part("NOT NULL", <<>>) >> ELSE <<>>)
    \o (IF col.DefaultSQLExpr # Nil
          THEN << Part("DEFAULT", << CHOOSE e \in col.DefaultSQLExpr : TRUE >>) >> ELSE <<>>)
    \o foreignKeyParts(col.ForeignKey)

columnToString(col, pkCount) ==
    << Part("name", << col.Name >>), Part("type", << columnTypeToString(col.Type) >>) >>
    \o (IF col.PrimaryKey /\ pkCount <= 1 THEN << Part("PRIMARY KEY", <<>>) >> ELSE <<>>)
    \o (IF ~col.Nullable THEN << Part("NOT NULL", <<>>) >> ELSE <<>>)
    \o (IF col.DefaultSQLExpr # Nil
          THEN << Part("DEFAULT", << CHOOSE e \in col.DefaultSQLExpr : TRUE >>) >> ELSE <<>>)
    \o foreignKeyParts(col.ForeignKey)

RECURSIVE pkColsOf(_)
pkColsOf(cols) ==
    IF cols = <<>> THEN <<>>
    ELSE (IF Head(cols).PrimaryKey THEN << Head(cols).Name >> ELSE <<>>) \o pkColsOf(Tail(cols))

\* A slip in the table-level constraint: it is never appended.
schemaToCreationStringNoTablePK(schema) ==
    LET pkCols == pkColsOf(schema.Columns)
    IN  [head |-> "CREATE TABLE IF NOT EXISTS",
         table |-> schema.Name,
         items |-> [i \in 1..Len(schema.Columns) |->
                        columnToString(schema.Columns[i], Len(pkCols))]]

\* A slip in the statement's head: a plain CREATE TABLE.
schemaToCreationStringNoIfNotExists(schema) ==
    LET pkCols == pkColsOf(schema.Columns)
        cols == [i \in 1..Len(schema.Columns) |->
                    columnToString(schema.Columns[i], Len(pkCols))]
    IN  [head |-> "CREATE TABLE",
         table |-> schema.Name,
         items |-> IF Len(pkCols) > 1
                     THEN Append(cols, << Part("PRIMARY KEY", pkCols) >>)
                     ELSE cols]

schemaToCreationString(schema) ==
    LET pkCols == pkColsOf(schema.Columns)
        cols == [i \in 1..Len(schema.Columns) |->
                    columnToString(schema.Columns[i], Len(pkCols))]
    IN  [head |-> "CREATE TABLE IF NOT EXISTS",
         table |-> schema.Name,
         items |-> IF Len(pkCols) > 1
                     THEN Append(cols, << Part("PRIMARY KEY", pkCols) >>)
                     ELSE cols]

\* ------------------------------ the database's reading of a CREATE TABLE
\* Unquoted identifiers are folded to lower case.
Fold(name) == IF name = "Events" THEN "events" ELSE name

HasPart(item, kw) == \E j \in 1..Len(item) : item[j].kw = kw
IsColumnItem(item) == item[1].kw = "name"

\* Every PRIMARY KEY constraint of the statement, as (item index, key columns).
SqlPrimaryKeys(sql) ==
    { << i, IF IsColumnItem(sql.items[i]) THEN << sql.items[i][1].arg[1] >>
            ELSE sql.items[i][1].arg >> :
        i \in { k \in 1..Len(sql.items) : HasPart(sql.items[k], "PRIMARY KEY") } }

\* The key columns of the table: those of its (single) primary key, if any.
SqlKeyColumns(sql) ==
    IF SqlPrimaryKeys(sql) = {} THEN {}
    ELSE LET pk == CHOOSE p \in SqlPrimaryKeys(sql) : TRUE
         IN  { pk[2][j] : j \in 1..Len(pk[2]) }

\* NOT NULL columns: declared so, or part of the primary key.
SqlNotNull(sql) ==
    { sql.items[i][1].arg[1] :
        i \in { k \in 1..Len(sql.items) :
                  IsColumnItem(sql.items[k]) /\ HasPart(sql.items[k], "NOT NULL") } }
    \cup SqlKeyColumns(sql)

\* Foreign keys: referencing column, referenced table and column, ON DELETE.
SqlReferences(sql) ==
    { [column |-> sql.items[i][1].arg[1],
       target |-> Fold(sql.items[i][j].arg[1]),
       targetColumn |-> sql.items[i][j].arg[2],
       onDelete |-> sql.items[i][j].arg[3]] :
        << i, j >> \in { p \in (1..Len(sql.items)) \X (1..8) :
                           /\ IsColumnItem(sql.items[p[1]])
                           /\ p[2] <= Len(sql.items[p[1]])
                           /\ sql.items[p[1]][p[2]].kw = "REFERENCES" } }

\* CREATE TABLE is refused for more than one primary key or for a foreign
\* key into a table that does not exist.
SqlAccepted(sql, existing) ==
    /\ Cardinality(SqlPrimaryKeys(sql)) <= 1
    /\ \A ref \in SqlReferences(sql) : ref.target \in existing

\* ------------------------------------------------------------------ state
VARIABLES
    phase,        \* "init": server.New is in initDatabase; "serving"; "failed"
    initStep,     \* how many CreateSchema calls of initDatabase have returned nil
    tables,       \* the tables that exist in the database
    nextID,       \* how many eventIDs the database has generated
    events,       \* rows of table events
    exceptions,   \* rows of table exceptions
    occurrences,  \* rows of table occurrences
    result,       \* the last statement or call: what it was and how it ended
    mux,          \* the routes registered on the server's ServeMux
    req,          \* the last HTTP request served: its route and what it did
    resp,         \* the response written to that request
    dist,         \* the regular files under the frontend dist directory
    proc,         \* cmd/server main: where the process is, its server and its log
    script        \* create_image.sh: where the script is, its mounts and its exit

vars == << phase, initStep, tables, nextID, events, exceptions, occurrences, result, mux, req,
           resp, dist, proc, script >>

\* The process and the script before they are started.
NotStarted == [pc |-> "none"]

\* A row maps each column to Nil (SQL NULL) or Ptr(value).
Times == 0..MaxTime
EventIDs == 1..MaxEvents

ExceptionCancel == 0
ExceptionMove == 1

\* initDatabase with the CreateOccurrenceSchema step left out.
InitSchemasNoOccurrence == << CreateEventSchema, CreateExceptionSchema >>

\* initDatabase creates the tables in this order.
InitSchemas == << CreateEventSchema, CreateOccurrenceSchema, CreateExceptionSchema >>

\* The CREATE TABLE statement each table was created with, and the
\* constraints the database keeps for it.
TableNames == { "events", "occurrences", "exceptions" }

TableSql ==
    [name \in TableNames |->
        CASE name = "events" -> schemaToCreationString(CreateEventSchema)
          [] name = "occurrences" -> schemaToCreationString(CreateOccurrenceSchema)
          [] name = "exceptions" -> schemaToCreationString(CreateExceptionSchema)]

TableKey == [name \in TableNames |-> SqlKeyColumns(TableSql[name])]
TableNotNull == [name \in TableNames |-> SqlNotNull(TableSql[name])]
TableReferences == [name \in TableNames |-> SqlReferences(TableSql[name])]

TableRows(name) ==
    CASE name = "events" -> events
      [] name = "occurrences" -> occurrences
      [] name = "exceptions" -> exceptions

Result(op, err, deps) == [op |-> op, err |-> err, deps |-> deps]

\* ------------------------------------------------------ server.go: routes
\* A path or pattern is its "/"-separated segments after the leading slash:
\* "/" is << "" >>, "/events" is << "events" >>, "/events/" is << "events", "" >>.
DbTimeoutSeconds == 10

\* TimeoutMiddleware(d)(h): h runs with a request context whose deadline is
\* d from now. The deadline a handler runs under is Nil or Ptr(seconds).
TimeoutMiddleware(seconds) == Ptr(seconds)

Route(pattern, handler, deadline) ==
    [pattern |-> pattern, handler |-> handler, deadline |-> deadline]

routes ==
    { Route(<< "" >>, "Fs", Nil),
      Route(<< "health" >>, "health", Nil),
      Route(<< "events" >>, "eventHandler", TimeoutMiddleware(DbTimeoutSeconds)),
      Route(<< "events", "" >>, "eventByIDHandler", TimeoutMiddleware(DbTimeoutSeconds)) }

\* http.ServeMux: a pattern ending in "/" matches every path below it, any
\* other pattern matches that path only; the longest matching pattern wins.
Matches(pattern, path) ==
    IF pattern[Len(pattern)] = ""
      THEN /\ Len(path) >= Len(pattern)
           /\ \A i \in 1..(Len(pattern) - 1) : path[i] = pattern[i]
      ELSE path = pattern

MuxHandler(path) ==
    CHOOSE r \in mux :
        /\ Matches(r.pattern, path)
        /\ \A q \in mux : Matches(q.pattern, path) => Len(q.pattern) <= Len(r.pattern)

NoQuery == [limit |-> << >>, offset |-> << >>]

NoRequest ==
    [method |-> "", path |-> << >>, handler |-> "", deadline |-> Nil, db |-> FALSE,
     query |-> NoQuery, body |-> Nil]

\* net/http status codes.
StatusOK == 200
StatusCreated == 201
StatusNoContent == 204
StatusBadRequest == 400
StatusNotFound == 404
StatusMethodNotAllowed == 405
StatusInternalServerError == 500
StatusServiceUnavailable == 503

\* What a handler wrote: status, the text of http.Error (or ""), the Allow
\* header (or ""), and the JSON value of writeJSON: an event or a page.
Response(status, msg, allow) ==
    [status |-> status, msg |-> msg, allow |-> allow, event |-> Nil, page |-> Nil]

NoResponse == Response(0, "", "")

Init ==
    /\ phase = "init"
    /\ initStep = 0
    /\ tables = {}
    /\ nextID = 0
    /\ events = {}
    /\ exceptions = {}
    /\ occurrences = {}
    /\ result = Result("none", "nil", 0)
    /\ mux = {}
    /\ req = NoRequest
    /\ resp = NoResponse
    /\ dist = {}
    /\ proc = NotStarted
    /\ script = NotStarted

\* ------------------------------------- server.New / initDatabase / CreateSchema
\* The database's answer to a CREATE TABLE statement: an existing table is
\* skipped under IF NOT EXISTS and an error otherwise.
SqlCreateError(sql, tabs) ==
    IF sql.table \in tabs
      THEN (IF sql.head = "CREATE TABLE IF NOT EXISTS" THEN "nil" ELSE "duplicate_table")
      ELSE (IF SqlAccepted(sql, tabs) THEN "nil" ELSE "rejected")

\* One CreateSchema call of initDatabase. The statement can fail in the
\* database (refused, or the connection is lost or the 60 s deadline passes:
\* "unavailable"); initDatabase then returns the error and New returns no
\* server.
CreateSchemaOk ==
    /\ phase = "init"
    /\ initStep < Len(InitSchemas)
    /\ LET sql == schemaToCreationString(InitSchemas[initStep + 1])
       IN  /\ SqlCreateError(sql, tables) = "nil"
           /\ tables' = tables \cup { sql.table }
    /\ initStep' = initStep + 1
    /\ UNCHANGED << phase, nextID, events, exceptions, occurrences, result, mux >>

CreateSchemaFails ==
    /\ phase = "init"
    /\ initStep < Len(InitSchemas)
    /\ phase' = "failed"
    /\ LET sql == schemaToCreationString(InitSchemas[initStep + 1])
       IN  \E err \in { "unavailable" } \cup ({ SqlCreateError(sql, tables) } \ { "nil" }) :
               result' = Result("initDatabase", err, 0)
    /\ UNCHANGED << initStep, tables, nextID, events, exceptions, occurrences, mux >>

\* initDatabase returned nil: New registers the routes and returns the server.
ServerNew ==
    /\ phase = "init"
    /\ initStep = Len(InitSchemas)
    /\ phase' = "serving"
    /\ result' = Result("initDatabase", "nil", 0)
    /\ mux' = routes
    /\ UNCHANGED << initStep, tables, nextID, events, exceptions, occurrences >>

\* ------------------------------------------- the database's row statements
\* Row statements are taken to reach the database: a lost connection or an
\* expired request deadline is modelled for initDatabase only.
\* INSERT of one row into table t: the error the database answers, or "nil".
InsertError(t, row) ==
    LET key == TableKey[t]
    IN  IF \E c \in TableNotNull[t] : row[c] = Nil
          THEN "not_null_violation"
        ELSE IF key # {} /\ \E r \in TableRows(t) : \A c \in key : r[c] = row[c]
          THEN "unique_violation"
        ELSE IF \E ref \in TableReferences[t] :
                  /\ row[ref.column] # Nil
                  /\ ~ \E e \in TableRows(ref.target) : e[ref.targetColumn] = row[ref.column]
          THEN "foreign_key_violation"
        ELSE "nil"

\* Rows of table t that reference event id, and those among them whose
\* foreign key does not cascade (they make the DELETE fail).
Dependents(t, id) ==
    { r \in TableRows(t) :
        \E ref \in TableReferences[t] :
            ref.target = "events" /\ r[ref.column] = Ptr(id) }

Blocking(t, id) ==
    { r \in TableRows(t) :
        \E ref \in TableReferences[t] :
            ref.target = "events" /\ r[ref.column] = Ptr(id) /\ ref.onDelete # "CASCADE" }

\* ------------------------------------------------------ schemas.CreateEvent
Names == { "", "Ann" }
Titles == { "", "Dinner" }
Zones == { "", "UTC" }
Rrules == { Ptr("FREQ=WEEKLY") }

\* A slip in CreateEvent: the input is inserted unvalidated.
CreateEventNoValidation(personName, title, timezone, rrule) ==
    /\ phase = "serving"
    /\ nextID < MaxEvents
    /\ Cardinality(events) + Cardinality(exceptions) + Cardinality(occurrences) < MaxRows
    /\ nextID' = nextID + 1
    /\ events' = events \cup
          { [eventID |-> Ptr(nextID + 1), personName |-> Ptr(personName),
             title |-> Ptr(title), notes |-> Nil, timezone |-> Ptr(timezone),
             allDay |-> Ptr(FALSE), rrule |-> rrule] }
    /\ result' = Result("CreateEvent", "nil", 0)
    /\ UNCHANGED << phase, initStep, tables, exceptions, occurrences, mux >>

CreateEvent(personName, title, timezone, rrule) ==
    /\ phase = "serving"
    /\ IF personName = "" \/ title = "" \/ timezone = ""
         THEN /\ result' = Result("CreateEvent", "required", 0)
              /\ UNCHANGED << nextID, events >>
         ELSE /\ nextID < MaxEvents
              /\ Cardinality(events) + Cardinality(exceptions) + Cardinality(occurrences) < MaxRows
              /\ nextID' = nextID + 1
              /\ events' = events \cup
                    { [eventID |-> Ptr(nextID + 1), personName |-> Ptr(personName),
                       title |-> Ptr(title), notes |-> Nil, timezone |-> Ptr(timezone),
                       allDay |-> Ptr(FALSE), rrule |-> rrule] }
              /\ result' = Result("CreateEvent", "nil", 0)
    /\ UNCHANGED << phase, initStep, tables, exceptions, occurrences, mux >>

\* ------------------------------------------------------ schemas.DeleteEvent
\* A slip in DeleteEvent: the number of affected rows is not looked at.
DeleteEventIgnoresRowsAffected(id) ==
    /\ phase = "serving"
    /\ events' = { e \in events : e.eventID # Ptr(id) }
    /\ exceptions' = exceptions \ Dependents("exceptions", id)
    /\ occurrences' = occurrences \ Dependents("occurrences", id)
    /\ result' = Result("DeleteEvent", "nil", Cardinality(Dependents("exceptions", id)))
    /\ UNCHANGED << phase, initStep, tables, nextID, mux >>

DeleteEvent(id) ==
    /\ phase = "serving"
    /\ LET target == { e \in events : e.eventID = Ptr(id) }
           deps == Cardinality(Dependents("exceptions", id))
       IN  IF target = {}
             THEN /\ result' = Result("DeleteEvent", "ErrNoRows", 0)
                  /\ UNCHANGED << events, exceptions, occurrences >>
           ELSE IF Blocking("exceptions", id) \cup Blocking("occurrences", id) # {}
             THEN /\ result' = Result("DeleteEvent", "foreign_key_violation", deps)
                  /\ UNCHANGED << events, exceptions, occurrences >>
           ELSE /\ events' = events \ target
                /\ exceptions' = exceptions \ Dependents("exceptions", id)
                /\ occurrences' = occurrences \ Dependents("occurrences", id)
                /\ result' = Result("DeleteEvent", "nil", deps)
    /\ UNCHANGED << phase, initStep, tables, nextID, mux >>

\* ------------------------------------------- rows of exceptions, occurrences
NullableTimes == { Nil, Ptr(0) }

ExceptionRows ==
    [eventID : { Ptr(i) : i \in EventIDs },
     recurrenceID : { Ptr(t) : t \in Times },
     kind : { Ptr(ExceptionCancel), Ptr(ExceptionMove) },
     newStart : NullableTimes,
     newEnd : NullableTimes]

OccurrenceRows ==
    [eventID : { Ptr(i) : i \in EventIDs },
     startTime : { Ptr(t) : t \in Times },
     endTime : NullableTimes,
     moved : { Ptr(FALSE) },
     oldStartTime : { Nil },
     oldEndTime : { Nil }]

RowCount == Cardinality(events) + Cardinality(exceptions) + Cardinality(occurrences)

\* INSERT INTO exceptions: the table takes what its constraints allow.
InsertException(row) ==
    /\ "exceptions" \in tables
    /\ LET err == InsertError("exceptions", row)
       IN  /\ err = "nil" => RowCount < MaxRows
           /\ exceptions' = IF err = "nil" THEN exceptions \cup { row } ELSE exceptions
           /\ result' = Result("InsertException", err, 0)
    /\ UNCHANGED << phase, initStep, tables, nextID, events, occurrences, mux >>

\* INSERT INTO occurrences.
InsertOccurrence(row) ==
    /\ "occurrences" \in tables
    /\ LET err == InsertError("occurrences", row)
       IN  /\ err = "nil" => RowCount < MaxRows
           /\ occurrences' = IF err = "nil" THEN occurrences \cup { row } ELSE occurrences
           /\ result' = Result("InsertOccurrence", err, 0)
    /\ UNCHANGED << phase, initStep, tables, nextID, events, exceptions, mux >>

\* ------------------------------------------------------------ specification
\* Startup, then direct calls of package schemas and plain INSERTs.
Next ==
    \/ CreateSchemaOk /\ UNCHANGED << req, resp, dist, proc, script >>
    \/ CreateSchemaFails /\ UNCHANGED << req, resp, dist, proc, script >>
    \/ ServerNew /\ UNCHANGED << req, resp, dist, proc, script >>
    \/ \E n \in Names, t \in Titles, z \in Zones, r \in Rrules :
          CreateEvent(n, t, z, r) /\ UNCHANGED << req, resp, dist, proc, script >>
    \/ \E id \in EventIDs : DeleteEvent(id) /\ UNCHANGED << req, resp, dist, proc, script >>
    \/ \E row \in ExceptionRows : InsertException(row) /\ UNCHANGED << req, resp, dist, proc, script >>
    \/ \E row \in OccurrenceRows : InsertOccurrence(row) /\ UNCHANGED << req, resp, dist, proc, script >>

Spec == Init /\ [][Next]_vars

\* ----------------------------------------------------- the HTTP server
\* main: the process is started again over the same database.
Restart ==
    /\ phase # "init" \/ initStep > 0
    /\ phase' = "init"
    /\ initStep' = 0
    /\ mux' = {}
    /\ req' = NoRequest
    /\ resp' = NoResponse
    /\ result' = Result("none", "nil", 0)
    /\ UNCHANGED << tables, nextID, events, exceptions, occurrences >>

Methods == { "GET", "POST", "DELETE", "PUT" }

\* "x" is an id that is no UUID.
Paths ==
    { << "" >>, << "index.html" >>, << "health" >>, << "events" >>,
      << "events", "" >>, << "events", "a", "b" >>, << "events", "x" >> }
    \cup { << "events", ToString(i) >> : i \in EventIDs }
    \cup { << "events", ToString(i), "" >> : i \in EventIDs }

Request(method, path, db) ==
    [method |-> method, path |-> path, handler |-> MuxHandler(path).handler,
     deadline |-> MuxHandler(path).deadline, db |-> db,
     query |-> NoQuery, body |-> Nil]

Routed(path, handler) ==
    /\ phase = "serving"
    /\ \E r \in mux : Matches(r.pattern, path)
    /\ MuxHandler(path).handler = handler

\* The handler leaves the database and the server as they are.
NoStatement ==
    UNCHANGED << phase, initStep, tables, nextID, events, exceptions, occurrences,
                 result, mux >>

\* ------------------------------------------------- strconv.Atoi, parseIntQuery
\* A query value is the sequence of its characters; << >> is an absent or
\* empty parameter.
DigitOf(c) ==
    CASE c = "0" -> 0 [] c = "1" -> 1 [] c = "2" -> 2 [] c = "3" -> 3 [] c = "4" -> 4
      [] c = "5" -> 5 [] c = "6" -> 6 [] c = "7" -> 7 [] c = "8" -> 8 [] c = "9" -> 9
      [] OTHER -> -1

RECURSIVE StripZeros(_)
StripZeros(ds) ==
    IF Len(ds) > 1 /\ Head(ds) = "0" THEN StripZeros(Tail(ds)) ELSE ds

RECURSIVE DigitsValue(_, _)
DigitsValue(ds, acc) ==
    IF ds = << >> THEN acc ELSE DigitsValue(Tail(ds), 10 * acc + DigitOf(Head(ds)))

\* Lexicographic a <= b for digit sequences of one length.
RECURSIVE DigitsLeq(_, _)
DigitsLeq(a, b) ==
    IF a = << >> THEN TRUE
    ELSE IF DigitOf(Head(a)) # DigitOf(Head(b)) THEN DigitOf(Head(a)) < DigitOf(Head(b))
    ELSE DigitsLeq(Tail(a), Tail(b))

\* The digits of the largest int (64 bits): 9223372036854775807; the smallest
\* is one further from zero.
MaxIntDigits ==
    << "9", "2", "2", "3", "3", "7", "2", "0", "3", "6", "8", "5", "4", "7", "7", "5",
       "8", "0", "7" >>
MinIntDigits ==
    << "9", "2", "2", "3", "3", "7", "2", "0", "3", "6", "8", "5", "4", "7", "7", "5",
       "8", "0", "8" >>

\* Values of ten digits and more are all represented by Huge (or -Huge):
\* every bound the program compares against is smaller.
ExactDigits == 9
Huge == 1000000000

\* strconv.Atoi: an optional sign, then decimal digits only; a value outside
\* the int range is an error too.
Atoi(v) ==
    LET signed == v # << >> /\ v[1] \in { "+", "-" }
        neg == v # << >> /\ v[1] = "-"
        ds == IF signed THEN Tail(v) ELSE v
        sig == StripZeros(ds)
    IN  IF ds = << >> \/ \E i \in 1..Len(ds) : DigitOf(ds[i]) = -1
          THEN [n |-> 0, err |-> "ErrSyntax"]
        ELSE IF \/ Len(sig) > Len(MaxIntDigits)
                \/ /\ Len(sig) = Len(MaxIntDigits)
                   /\ ~ DigitsLeq(sig, IF neg THEN MinIntDigits ELSE MaxIntDigits)
          THEN [n |-> 0, err |-> "ErrRange"]
        ELSE [n |-> (IF neg THEN -1 ELSE 1) *
                      (IF Len(sig) > ExactDigits THEN Huge ELSE DigitsValue(sig, 0)),
              err |-> "nil"]

\* A slip in the clamp: the lower bound is not applied.
parseIntQueryNoMin(v, def, min, max) ==
    IF v = << >> THEN def
    ELSE IF Atoi(v).err # "nil" THEN def
    ELSE IF Atoi(v).n > max THEN max
    ELSE Atoi(v).n

parseIntQuery(v, def, min, max) ==
    IF v = << >> THEN def
    ELSE IF Atoi(v).err # "nil" THEN def
    ELSE IF Atoi(v).n < min THEN min
    ELSE IF Atoi(v).n > max THEN max
    ELSE Atoi(v).n

DefaultLimit == 50
MinLimit == 1
MaxLimit == 200
DefaultOffset == 0
MinOffset == 0
MaxOffset == 1000000

\* ------------------------------------------------------- schemas.ListEvents
IdVal(e) == CHOOSE i \in EventIDs : e.eventID = Ptr(i)

\* ORDER BY personName, title, eventID. Every stored event of the model has
\* the same personName and title, which leaves the order of the eventIDs.
RECURSIVE OrderedRows(_)
OrderedRows(rows) ==
    IF rows = {} THEN << >>
    ELSE LET first == CHOOSE e \in rows : \A f \in rows : IdVal(e) <= IdVal(f)
         IN  << first >> \o OrderedRows(rows \ { first })

\* LIMIT $1 OFFSET $2 over the ordered rows; total_count is COUNT(*) OVER()
\* of the unlimited result, read from the rows that come back: total stays 0
\* when none does.
ListEvents(limit, offset) ==
    LET all == OrderedRows(events)
        last == IF offset + limit < Len(all) THEN offset + limit ELSE Len(all)
        items == SubSeq(all, offset + 1, last)
    IN  [items |-> items, total |-> IF items = << >> THEN 0 ELSE Len(all)]

\* "/": the file server of the frontend; no database. Whether the file
\* exists is the file system's answer.
ServeFs(method, path) ==
    /\ Routed(path, "Fs")
    /\ req' = Request(method, path, FALSE)
    /\ \E status \in { StatusOK, StatusNotFound } : resp' = Response(status, "", "")
    /\ NoStatement

\* "/health": s.DB.PingContext(r.Context()).
health(method, path) ==
    /\ Routed(path, "health")
    /\ req' = Request(method, path, TRUE)
    /\ \/ resp' = Response(StatusOK, "ok", "")
       \/ resp' = Response(StatusServiceUnavailable, "db not ready", "")
    /\ NoStatement

\* The values of the limit and offset parameters that requests carry.
LimitQueries == { << >>, << "a", "b", "c" >>, << "0" >>, << "1" >>, << "2", "0", "1" >> }
OffsetQueries ==
    { << >>, << "1" >>, << "+", "2" >>, << "-", "3" >>,
      << "1", "0", "0", "0", "0", "0", "1" >> }

\* getEvents: the page of ListEvents for the clamped limit and offset.
getEvents(method, path, query) ==
    LET limit == parseIntQuery(query.limit, DefaultLimit, MinLimit, MaxLimit)
        offset == parseIntQuery(query.offset, DefaultOffset, MinOffset, MaxOffset)
        list == ListEvents(limit, offset)
    IN  /\ req' = [Request(method, path, TRUE) EXCEPT !.query = query]
        /\ result' = Result("ListEvents", "nil", 0)
        /\ resp' = [Response(StatusOK, "", "") EXCEPT
                      !.page = Ptr([Items |-> list.items, Limit |-> limit, Offset |-> offset,
                                    Count |-> Len(list.items), Total |-> list.total])]
        /\ UNCHANGED << phase, initStep, tables, nextID, events, exceptions, occurrences, mux >>

\* The eventId a client can put into the body of POST /events: none, or the
\* text of an id.
ClientIDs == { "" } \cup { ToString(i) : i \in EventIDs }

\* createEvent: a body that is no JSON is answered 400; otherwise CreateEvent
\* is called with the decoded event, and its error is answered 400.
createEvent(method, path) ==
    \/ /\ req' = Request(method, path, FALSE)
       /\ resp' = Response(StatusBadRequest, "invalid JSON", "")
       /\ NoStatement
    \/ \E id \in ClientIDs, n \in Names, t \in Titles, z \in Zones, r \in Rrules :
          /\ CreateEvent(n, t, z, r)
          /\ req' = [Request(method, path, result'.err # "required") EXCEPT
                       !.body = Ptr([eventID |-> id, personName |-> n, title |-> t,
                                     timezone |-> z, rrule |-> r])]
          /\ resp' = IF result'.err = "nil"
                       THEN [Response(StatusCreated, "", "") EXCEPT !.event = events' \ events]
                       ELSE Response(StatusBadRequest, result'.err, "")

\* "/events": GET lists the events, POST creates one, any other method is
\* answered 405.
eventHandler(method, path) ==
    /\ Routed(path, "eventHandler")
    /\ CASE method = "GET" -> \E l \in LimitQueries, o \in OffsetQueries :
                                  getEvents(method, path, [limit |-> l, offset |-> o])
         [] method = "POST" -> createEvent(method, path)
         [] OTHER ->
              /\ req' = Request(method, path, FALSE)
              /\ resp' = Response(StatusMethodNotAllowed, "method not allowed", "GET, POST")
              /\ NoStatement

\* strings.Trim(strings.TrimPrefix(path, "/events/"), "/"), as segments.
RECURSIVE TrimSlashes(_)
TrimSlashes(segs) ==
    IF segs = << >> THEN << >>
    ELSE IF Head(segs) = "" THEN TrimSlashes(Tail(segs))
    ELSE IF segs[Len(segs)] = "" THEN TrimSlashes(SubSeq(segs, 1, Len(segs) - 1))
    ELSE segs

\* A slip in the id: the first segment after /events/ is taken, whatever
\* follows it.
PathIDFirstSegment(path) == << path[2] >>

PathID(path) == TrimSlashes(Tail(path))

\* The event a path id names (0: the text is no UUID).
IdOf(seg) ==
    IF \E i \in EventIDs : ToString(i) = seg
      THEN CHOOSE i \in EventIDs : ToString(i) = seg
      ELSE 0

\* getEvent: SELECT ... WHERE eventID = $1. A text that is no UUID is refused
\* by the database (500); no row is sql.ErrNoRows (404); the event found is
\* written with http.StatusCreated.
getEvent(method, path, id) ==
    LET rows == { e \in events : e.eventID = Ptr(IdOf(id)) }
        err == IF IdOf(id) = 0 THEN "invalid_text_representation"
               ELSE IF rows = {} THEN "ErrNoRows" ELSE "nil"
    IN  /\ req' = Request(method, path, TRUE)
        /\ result' = Result("GetEvent", err, 0)
        /\ resp' = IF err = "nil"
                     THEN [Response(StatusCreated, "", "") EXCEPT !.event = rows]
                   ELSE IF err = "ErrNoRows"
                     THEN Response(StatusNotFound, "event not found", "")
                   ELSE Response(StatusInternalServerError, err, "")
        /\ UNCHANGED << phase, initStep, tables, nextID, events, exceptions, occurrences, mux >>

\* deleteEvent: DeleteEvent's nil is answered 204, sql.ErrNoRows 404, any
\* other error 500.
deleteEvent(method, path, id) ==
    /\ IF IdOf(id) = 0
         THEN /\ result' = Result("DeleteEvent", "invalid_text_representation", 0)
              /\ UNCHANGED << phase, initStep, tables, nextID, events, exceptions,
                              occurrences, mux >>
         ELSE DeleteEvent(IdOf(id))
    /\ req' = Request(method, path, TRUE)
    /\ resp' = IF result'.err = "nil"
                 THEN Response(StatusNoContent, "", "")
               ELSE IF result'.err = "ErrNoRows"
                 THEN Response(StatusNotFound, "event not found", "")
               ELSE Response(StatusInternalServerError, result'.err, "")

\* "/events/": no id or a deeper path is answered 404; GET reads the event,
\* DELETE deletes it, any other method is answered 405.
eventByIDHandler(method, path) ==
    /\ Routed(path, "eventByIDHandler")
    /\ IF Len(PathID(path)) # 1 \/ PathID(path) = << "" >>
         THEN /\ req' = Request(method, path, FALSE)
              /\ resp' = Response(StatusNotFound, "not found", "")
              /\ NoStatement
         ELSE CASE method = "GET" -> getEvent(method, path, PathID(path)[1])
                [] method = "DELETE" -> deleteEvent(method, path, PathID(path)[1])
                [] OTHER ->
                     /\ req' = Request(method, path, FALSE)
                     /\ resp' = Response(StatusMethodNotAllowed, "method not allowed",
                                         "GET, DELETE")
                     /\ NoStatement

\* Startup, restarts and the requests the server answers.
NextServer ==
    \/ CreateSchemaOk /\ UNCHANGED << req, resp, dist, proc, script >>
    \/ CreateSchemaFails /\ UNCHANGED << req, resp, dist, proc, script >>
    \/ ServerNew /\ UNCHANGED << req, resp, dist, proc, script >>
    \/ Restart /\ UNCHANGED << dist, proc, script >>
    \/ \E m \in Methods, p \in Paths : ServeFs(m, p) /\ UNCHANGED << dist, proc, script >>
    \/ \E m \in Methods, p \in Paths : health(m, p) /\ UNCHANGED << dist, proc, script >>
    \/ \E m \in Methods, p \in Paths : eventHandler(m, p) /\ UNCHANGED << dist, proc, script >>
    \/ \E m \in Methods, p \in Paths :
          eventByIDHandler(m, p) /\ UNCHANGED << dist, proc, script >>

SpecServer == Init /\ [][NextServer]_vars

\* ------------------------------------------------------------------ claims
RefersToStoredEvent(r) == \E e \in events : e.eventID = r.eventID

\* C1: exceptions are cascade-deleted with their event. No exception row and
\* no occurrence row refers to an eventID that is not in the events table,
\* and a DeleteEvent of an event that has exceptions succeeds (the rows that
\* referred to it are gone with it).
C1_CascadeDelete ==
    /\ \A r \in exceptions : RefersToStoredEvent(r)
    /\ \A r \in occurrences : RefersToStoredEvent(r)
    /\ (result.op = "DeleteEvent" /\ result.deps > 0) => result.err = "nil"

\* C1 witness: a DeleteEvent of an event that had exceptions has returned nil.
C1_Witness ==
    /\ result.op = "DeleteEvent"
    /\ result.err = "nil"
    /\ result.deps > 0
    /\ nextID > Cardinality(events)

SameSlot(r1, r2) == r1.eventID = r2.eventID /\ r1.recurrenceID = r2.recurrenceID

\* C2: the exceptions table generated by schemaToCreationString carries
\* exactly one primary-key constraint, the composite (eventID, recurrenceID),
\* and at most one exception is stored per (eventID, recurrenceID).
C2_OneExceptionPerSlot ==
    /\ { pk[2] : pk \in SqlPrimaryKeys(TableSql["exceptions"]) }
          = { << "eventID", "recurrenceID" >> }
    /\ Cardinality(SqlPrimaryKeys(TableSql["exceptions"])) = 1
    /\ \A r1, r2 \in exceptions : SameSlot(r1, r2) => r1 = r2

\* C2 witness: one event holds exceptions in two slots, and a further
\* exception for an occupied slot has just been refused.
C2_Witness ==
    /\ result.op = "InsertException"
    /\ result.err = "unique_violation"
    /\ \E r1, r2 \in exceptions :
          r1.eventID = r2.eventID /\ r1.recurrenceID # r2.recurrenceID

\* C3: in every stored exception newStart and newEnd are present exactly when
\* kind = move, and both are NULL when kind = cancel.
C3_OverrideTimesIffMove ==
    \A r \in exceptions :
        /\ r.kind = Ptr(ExceptionMove) => (r.newStart # Nil /\ r.newEnd # Nil)
        /\ r.kind = Ptr(ExceptionCancel) => (r.newStart = Nil /\ r.newEnd = Nil)

\* C4 as stated: occurrences are never persisted, the persistent state
\* consists only of events and exceptions.
C4_OnlyEventsAndExceptions ==
    /\ tables \subseteq { "events", "exceptions" }
    /\ occurrences = {}

ApplicationStep ==
    \/ CreateSchemaOk
    \/ CreateSchemaFails
    \/ ServerNew
    \/ \E n \in Names, t \in Titles, z \in Zones, r \in Rrules : CreateEvent(n, t, z, r)
    \/ \E id \in EventIDs : DeleteEvent(id)

\* C4 amended: the server starts serving only over a database that has the
\* three tables events, occurrences and exceptions, and no step of the
\* application adds a row to occurrences (it only removes them, by cascade).
C4_OccurrencesTableNeverWritten ==
    /\ [](phase = "serving" => tables = { "events", "occurrences", "exceptions" })
    /\ [][ApplicationStep => occurrences' \subseteq occurrences]_vars

\* C4 witness: the server is serving, events have been created through it,
\* the occurrences table exists and holds no row.
C4_Witness ==
    /\ phase = "serving"
    /\ "occurrences" \in tables
    /\ result.op = "CreateEvent" /\ result.err = "nil"
    /\ events # {}
    /\ occurrences = {}

\* C19: every request handler that accesses the database runs under a
\* request deadline: the /events and /events/{id} handlers are wrapped in the
\* 10-second timeout middleware, and no registered route reaches the
\* database without a timeout.
C19_DatabaseUnderDeadline ==
    /\ \A r \in mux : r.handler \in { "eventHandler", "eventByIDHandler" }
                        => r.deadline = Ptr(DbTimeoutSeconds)
    /\ req.db => req.deadline # Nil

AllTables == { schemaToCreationString(InitSchemas[i]).table : i \in 1..Len(InitSchemas) }

\* The tables exist in the order of InitSchemas: a table is there only if
\* every table before it is.
CreatedInOrder ==
    \A i \in 1..Len(InitSchemas) :
        schemaToCreationString(InitSchemas[i]).table \in tables
          => \A j \in 1..i : schemaToCreationString(InitSchemas[j]).table \in tables

\* C20: server.New returns a Server (with its routes) only after the events,
\* occurrences and exceptions tables were created, in that order; on the
\* first failing creation it stops and returns the error and no Server, no
\* route registered; the statements are never refused by the database,
\* whether the tables exist or not, so a run over an existing database fails
\* only if the database is unavailable; and such a run changes neither the
\* tables nor their rows.
C20_StartupCreatesTables ==
    /\ [](InitSchemas = << CreateEventSchema, CreateOccurrenceSchema, CreateExceptionSchema >>)
    /\ [](CreatedInOrder)
    /\ [](phase = "serving" => /\ tables = AllTables
                               /\ mux = routes)
    /\ [](phase = "init" => mux = {})
    /\ [](phase = "failed" => /\ mux = {}
                              /\ initStep < Len(InitSchemas)
                              /\ result = Result("initDatabase", "unavailable", 0))
    /\ [][phase = "failed" => tables' = tables]_vars
    /\ [][phase = "init" /\ phase' = "failed" => UNCHANGED << tables, initStep >>]_vars
    /\ [][phase = "init" => /\ UNCHANGED << nextID, events, exceptions, occurrences >>
                            /\ tables \subseteq tables'
                            /\ tables' \subseteq tables \cup
                                   (IF initStep < Len(InitSchemas)
                                      THEN { schemaToCreationString(InitSchemas[initStep + 1]).table }
                                      ELSE {})]_vars
    /\ [][tables = AllTables => tables' = tables]_vars

\* A restarted server came up over a database that already held the tables
\* and a stored event.
C20_Witness ==
    /\ phase = "serving"
    /\ result = Result("initDatabase", "nil", 0)
    /\ events # {}
    /\ mux = routes

\* C21: one event has zero or more occurrence rows, identified by the
\* primary key (eventID, startTime, endTime): the occurrences table takes an
\* occurrence of a stored event whenever no stored occurrence has the same
\* event, start and end, so several rows of one event with different start
\* times are accepted.
C21_SeveralOccurrencesPerEvent ==
    /\ "occurrences" \in tables => TableKey["occurrences"] = { "eventID", "startTime", "endTime" }
    /\ \A row \in OccurrenceRows :
          ( /\ "occurrences" \in tables
            /\ \E e \in events : e.eventID = row.eventID
            /\ \A o \in occurrences :
                  << o.eventID, o.startTime, o.endTime >>
                      # << row.eventID, row.startTime, row.endTime >> )
          => InsertError("occurrences", row) = "nil"

\* The event a path id names is stored.
Stored(id) == \E e \in events : e.eventID = Ptr(IdOf(id))

\* The step serves a request of the method to /events/{id}; ReqID is the id.
ReqID == PathID(req'.path)[1]

ByID(method) ==
    /\ req'.handler = "eventByIDHandler"
    /\ req'.method = method
    /\ Len(PathID(req'.path)) = 1

\* C22 as stated: once DELETE /events/{id} has answered 204, the id is gone
\* for good, and every GET or DELETE of an id that is not stored (deleted
\* before, or never there) answers 404 'event not found' and changes no
\* stored event.
C22_DeletedEventNotFound ==
    /\ [][\A i \in 1..nextID : (~ \E e \in events : e.eventID = Ptr(i))
                                 => ~ \E e \in events' : e.eventID = Ptr(i)]_vars
    /\ [][ByID("DELETE") /\ resp'.status = StatusNoContent
             => Stored(ReqID) /\ ~ \E e \in events' : e.eventID = Ptr(IdOf(ReqID))]_vars
    /\ [][(ByID("GET") \/ ByID("DELETE")) /\ ~ Stored(ReqID)
             => /\ resp' = Response(StatusNotFound, "event not found", "")
                /\ events' = events]_vars

\* C22, amended: the same for every id that is a UUID; an id that is no
\* UUID is refused by the database and answered 500, also without changing
\* any stored event.
C22_DeletedUUIDNotFound ==
    /\ [][\A i \in 1..nextID : (~ \E e \in events : e.eventID = Ptr(i))
                                 => ~ \E e \in events' : e.eventID = Ptr(i)]_vars
    /\ [][ByID("DELETE") /\ resp'.status = StatusNoContent
             => Stored(ReqID) /\ ~ \E e \in events' : e.eventID = Ptr(IdOf(ReqID))]_vars
    /\ [][(ByID("GET") \/ ByID("DELETE")) /\ ~ Stored(ReqID)
             => /\ resp' = IF IdOf(ReqID) # 0
                             THEN Response(StatusNotFound, "event not found", "")
                             ELSE Response(StatusInternalServerError,
                                           "invalid_text_representation", "")
                /\ events' = events]_vars

\* A GET of an id that was generated and deleted before was answered 404.
C22_Witness ==
    /\ req.handler = "eventByIDHandler" /\ req.method = "GET"
    /\ Len(PathID(req.path)) = 1
    /\ IdOf(PathID(req.path)[1]) \in 1..nextID
    /\ ~ Stored(PathID(req.path)[1])
    /\ resp = Response(StatusNotFound, "event not found", "")

\* What follows /events/ in a path: nothing but slashes, or at least two
\* segments with a slash between them.
NoID(path) == \A i \in 2..Len(path) : path[i] = ""
Deeper(path) == \E i, j \in 2..Len(path) : i < j /\ path[i] # "" /\ path[j] # ""

\* C23: eventByIDHandler answers 404 to every path with no id or with more
\* than one segment after /events/, whatever the method; for a single
\* segment it hands GET to getEvent and DELETE to deleteEvent and answers
\* every other method 405 with Allow: GET, DELETE; the 404 and the 405 are
\* written without a statement to the database.
C23_ByIDDispatch ==
    /\ [](req.handler = "eventByIDHandler" =>
            IF NoID(req.path) \/ Deeper(req.path)
              THEN resp = Response(StatusNotFound, "not found", "") /\ ~ req.db
            ELSE IF req.method = "GET"
              THEN result.op = "GetEvent" /\ req.db
            ELSE IF req.method = "DELETE"
              THEN result.op = "DeleteEvent" /\ req.db
            ELSE /\ resp = Response(StatusMethodNotAllowed, "method not allowed", "GET, DELETE")
                 /\ ~ req.db)
    /\ [][req'.handler = "eventByIDHandler" /\ ~ req'.db
            => UNCHANGED << tables, nextID, events, exceptions, occurrences, result >>]_vars

\* DELETE /events/a/b was answered 404 and nothing was asked of the database.
C23_Witness ==
    /\ req.handler = "eventByIDHandler"
    /\ req.method = "DELETE"
    /\ Deeper(req.path)
    /\ resp.status = StatusNotFound
    /\ ~ req.db

\* C30: only event creation answers 201 Created: POST /events answers 201
\* with the created event, and a GET /events/{id} that finds the event
\* answers 200 OK with it.
C30_OnlyCreationAnswersCreated ==
    /\ resp.status = StatusCreated => req.handler = "eventHandler" /\ req.method = "POST"
    /\ (req.handler = "eventHandler" /\ req.method = "POST" /\ result.err = "nil")
         => resp.status = StatusCreated /\ resp.event # Nil
    /\ (req.handler = "eventByIDHandler" /\ req.method = "GET" /\ result.err = "nil")
         => resp.status = StatusOK /\ resp.event # Nil

\* The step serves POST /events with a body that decodes to an event.
Creation == req'.handler = "eventHandler" /\ req'.method = "POST" /\ req'.body # Nil

Incomplete(in) == in.personName = "" \/ in.title = "" \/ in.timezone = ""

\* C27: a creation whose personName, title or timezone is empty is answered
\* 400 before any statement reaches the database and leaves the events
\* table as it was; a successful one stores exactly one new event, with the
\* fields of the input and an eventID generated by the database that no
\* stored event has, whatever eventId the client sent; eventIDs are unique
\* at all times.
C27_CreateEventValidates ==
    /\ [](\A e, f \in events : e.eventID = f.eventID => e = f)
    /\ [][Creation =>
            LET in == CHOOSE b \in req'.body : TRUE
            IN  IF Incomplete(in)
                  THEN /\ resp'.status = StatusBadRequest
                       /\ ~ req'.db
                       /\ UNCHANGED << events, nextID, exceptions, occurrences >>
                  ELSE /\ resp'.status = StatusCreated
                       /\ events \subseteq events'
                       /\ events' \ events = resp'.event
                       /\ \E e \in events' \ events :
                             /\ events' = events \cup { e }
                             /\ \A f \in events : f.eventID # e.eventID
                             /\ e.eventID = Ptr(nextID')
                             /\ e.personName = Ptr(in.personName)
                             /\ e.title = Ptr(in.title)
                             /\ e.timezone = Ptr(in.timezone)
                             /\ e.rrule = in.rrule]_vars

\* A client sent the eventId of a stored event; the creation was answered
\* 201 with an event of another id, and the stored event is still there.
C27_Witness ==
    /\ req.handler = "eventHandler" /\ req.method = "POST"
    /\ resp.status = StatusCreated
    /\ \E in \in req.body, e \in resp.event :
          /\ IdOf(in.eventID) # 0
          /\ Stored(in.eventID)
          /\ e.eventID # Ptr(IdOf(in.eventID))
          /\ e \in events

\* C28: in the page GET /events answers, Total is the number of events in
\* the table for every limit and offset, an offset at or beyond the last row
\* included, and Count is the number of items returned and never exceeds
\* Limit.
C28_PageTotalAndCount ==
    \A page \in resp.page :
        /\ page.Total = Cardinality(events)
        /\ page.Count = Len(page.Items)
        /\ page.Count <= page.Limit

\* ------------------------------------------------ parseIntQuery on its own
\* Query values with what they are: no integer at all ("default"), an
\* integer given by int, or an integer beyond every bound of the program.
QueryTable ==
    { [text |-> << >>, class |-> "default", int |-> 0],
      [text |-> << "a", "b", "c" >>, class |-> "default", int |-> 0],
      [text |-> << "1", ".", "5" >>, class |-> "default", int |-> 0],
      [text |-> << " ", "5" >>, class |-> "default", int |-> 0],
      [text |-> << "-" >>, class |-> "default", int |-> 0],
      [text |-> << "0" >>, class |-> "int", int |-> 0],
      [text |-> << "1" >>, class |-> "int", int |-> 1],
      [text |-> << "0", "7" >>, class |-> "int", int |-> 7],
      [text |-> << "+", "2" >>, class |-> "int", int |-> 2],
      [text |-> << "-", "3" >>, class |-> "int", int |-> -3],
      [text |-> << "2", "0", "0" >>, class |-> "int", int |-> 200],
      [text |-> << "2", "0", "1" >>, class |-> "int", int |-> 201],
      [text |-> << "1", "0", "0", "0", "0", "0", "0" >>, class |-> "int", int |-> 1000000],
      [text |-> << "1", "0", "0", "0", "0", "0", "1" >>, class |-> "int", int |-> 1000001],
      [text |-> << "5", "0", "0", "0", "0", "0", "0", "0", "0", "0" >>, class |-> "above", int |-> 0],
      [text |-> MaxIntDigits, class |-> "above", int |-> 0],
      [text |-> MinIntDigits, class |-> "default", int |-> 0],
      [text |-> << "-" >> \o MinIntDigits, class |-> "below", int |-> 0],
      [text |-> MaxIntDigits \o << "0" >>, class |-> "default", int |-> 0] }

QueryValues == { q.text : q \in QueryTable }

\* A GET /events has arrived at a running server with an empty table.
InitQuery ==
    /\ phase = "serving"
    /\ initStep = Len(InitSchemas)
    /\ tables = { schemaToCreationString(InitSchemas[i]).table : i \in 1..Len(InitSchemas) }
    /\ nextID = 0
    /\ events = {}
    /\ exceptions = {}
    /\ occurrences = {}
    /\ result = Result("initDatabase", "nil", 0)
    /\ mux = routes
    /\ \E l \in QueryValues, o \in QueryValues :
          req = [Request("GET", << "events" >>, FALSE) EXCEPT
                   !.query = [limit |-> l, offset |-> o]]
    /\ resp = NoResponse
    /\ dist = {}
    /\ proc = NotStarted
    /\ script = NotStarted

ServeQuery ==
    /\ ~ req.db
    /\ getEvents(req.method, req.path, req.query)
    /\ UNCHANGED << dist, proc, script >>

SpecQuery == InitQuery /\ [][ServeQuery]_vars

\* What the claim says parseIntQuery returns for a query value.
Clamped(text, def, min, max) ==
    LET q == CHOOSE e \in QueryTable : e.text = text
    IN  CASE q.class = "default" -> def
          [] q.class = "above" -> max
          [] q.class = "below" -> min
          [] OTHER -> IF q.int < min THEN min ELSE IF q.int > max THEN max ELSE q.int

\* C29: parseIntQuery returns def when the parameter is absent or no integer
\* and the parsed value clamped into [min, max] otherwise; getEvents
\* therefore always queries with 1 <= limit <= 200 and
\* 0 <= offset <= 1000000.
C29_ParseIntQueryClamps ==
    \A page \in resp.page :
        /\ page.Limit = Clamped(req.query.limit, 50, 1, 200)
        /\ page.Offset = Clamped(req.query.offset, 0, 0, 1000000)
        /\ 1 <= page.Limit /\ page.Limit <= 200
        /\ 0 <= page.Offset /\ page.Offset <= 1000000

\* limit=201 was clamped to 200 and offset=-3 to 0.
C29_Witness ==
    /\ req.query = [limit |-> << "2", "0", "1" >>, offset |-> << "-", "3" >>]
    /\ \E page \in resp.page : page.Limit = 200 /\ page.Offset = 0

\* ------------------------------------- cmd/server/main.go: the root handler
\* The server of main.go: /api/health and the root handler; no database.
routesMain ==
    { Route(<< "api", "health" >>, "apiHealth", Nil),
      Route(<< "" >>, "rootHandler", Nil) }

\* Regular files that may lie under dist, as path segments.
DistFiles ==
    { << "index.html" >>, << "assets", "app.js" >>, << "api", "data.json" >>,
      << "api", "v1", "users" >> }

RootPaths ==
    { << "" >>, << "about" >>, << "assets", "app.js" >>, << "assets" >>,
      << "api" >>, << "api", "" >>, << "api", "health" >>, << "api", "events" >>,
      << "api", "data.json" >>, << "api", "v1", "users" >>, << "api", "v1" >> }

\* filepath.Clean of a URL path the mux has let through: no trailing slash.
RECURSIVE Clean(_)
Clean(path) ==
    IF path # << >> /\ path[Len(path)] = ""
      THEN Clean(SubSeq(path, 1, Len(path) - 1))
      ELSE path

\* os.Stat(filepath.Join(dist, filepath.Clean(path))) finds a regular file.
IsFile(path) == Clean(path) \in dist

\* strings.HasPrefix(r.URL.Path, "/api/")
HasApiPrefix(path) == Len(path) >= 2 /\ path[1] = "api"

InitRoot ==
    /\ phase = "serving"
    /\ initStep = 0
    /\ tables = {}
    /\ nextID = 0
    /\ events = {}
    /\ exceptions = {}
    /\ occurrences = {}
    /\ result = Result("none", "nil", 0)
    /\ mux = routesMain
    /\ req = NoRequest
    /\ resp = NoResponse
    /\ dist \in SUBSET DistFiles
    /\ proc = NotStarted
    /\ script = NotStarted

\* "/api/health": {"ok": true}.
apiHealth(method, path) ==
    /\ Routed(path, "apiHealth")
    /\ req' = Request(method, path, FALSE)
    /\ resp' = Response(StatusOK, "{\"ok\": true}", "")
    /\ NoStatement
    /\ UNCHANGED << dist, proc, script >>

\* "/": an existing regular file is served by the file server; otherwise a
\* path outside /api/ gets index.html (404 if that is missing) and a path
\* under /api/ gets 404.
rootHandler(method, path) ==
    /\ Routed(path, "rootHandler")
    /\ req' = Request(method, path, FALSE)
    /\ resp' = IF IsFile(path)
                 THEN Response(StatusOK, "file", "")
               ELSE IF ~ HasApiPrefix(path)
                 THEN (IF << "index.html" >> \in dist
                         THEN Response(StatusOK, "index.html", "")
                         ELSE Response(StatusNotFound, "404 page not found", ""))
               ELSE Response(StatusNotFound, "404 page not found", "")
    /\ NoStatement
    /\ UNCHANGED << dist, proc, script >>

NextRoot ==
    \/ \E m \in Methods, p \in RootPaths : apiHealth(m, p)
    \/ \E m \in Methods, p \in RootPaths : rootHandler(m, p)

SpecRoot == InitRoot /\ [][NextRoot]_vars

\* C24: a request whose path starts with /api/, /api/health apart, never
\* reaches the file server or the index.html fallback: it is answered 404
\* whatever files lie under dist.
C24_ApiNeverFallsThrough ==
    (HasApiPrefix(req.path) /\ req.path # << "api", "health" >>)
      => resp = Response(StatusNotFound, "404 page not found", "")

\* ------------------------------------------- image_build/create_image.sh
\* Mount points are paths below WORK_DIR, as segments.
Rootfs == << "rootfs" >>
Boot == << "boot" >>
Firmware == << "rootfs", "boot", "firmware" >>
ProcFs == << "rootfs", "proc" >>
SysFs == << "rootfs", "sys" >>
DevFs == << "rootfs", "dev" >>
DevPts == << "rootfs", "dev", "pts" >>

\* main and mount_image, one entry per command or function that can fail.
\* "mount" entries name the mount point they mount.
MainSteps ==
    << [cmd |-> "check_dependencies"], [cmd |-> "load_env"], [cmd |-> "download_image"],
       [cmd |-> "losetup"], [cmd |-> "partitions"],
       [cmd |-> "mount", at |-> Rootfs], [cmd |-> "mount", at |-> Boot],
       [cmd |-> "mount", at |-> Firmware], [cmd |-> "mount", at |-> ProcFs],
       [cmd |-> "mount", at |-> SysFs], [cmd |-> "mount", at |-> DevFs],
       [cmd |-> "mount", at |-> DevPts], [cmd |-> "cp qemu"], [cmd |-> "cp resolv.conf"],
       [cmd |-> "configure_system"], [cmd |-> "generate_ssh_key"], [cmd |-> "clone_repo"],
       [cmd |-> "write_runtime_env"], [cmd |-> "configure_boot"], [cmd |-> "configure_wifi"],
       [cmd |-> "install_udev_rules"], [cmd |-> "install_setup_script"],
       [cmd |-> "optimize_boot"], [cmd |-> "finalize"],
       [cmd |-> "cleanup"], [cmd |-> "trap - EXIT"], [cmd |-> "mkdir"], [cmd |-> "mv"] >>

\* The first command of mount_image.
MountImageStep == CHOOSE i \in 1..Len(MainSteps) : MainSteps[i].cmd = "losetup"

\* A slip in cleanup's list: dev/pts is missing.
CleanupMountsNoDevPts == << DevFs, SysFs, ProcFs, Firmware, Rootfs, Boot >>

\* The list cleanup walks through.
CleanupMounts == << DevPts, DevFs, SysFs, ProcFs, Firmware, Rootfs, Boot >>

\* Exit statuses of failing commands.
FailCodes == { 1, 32 }

\* The script after `trap cleanup EXIT`, about to call main.
ScriptStart ==
    [pc |-> "main", step |-> 1, trap |-> TRUE, loop |-> FALSE, mounts |-> << >>,
     history |-> << >>, undone |-> << >>, cleanups |-> 0, clean |-> 0, inTrap |-> FALSE,
     status |-> 0, failed |-> Nil, exit |-> Nil]

InitImage ==
    /\ phase = "init"
    /\ initStep = 0
    /\ tables = {}
    /\ nextID = 0
    /\ events = {}
    /\ exceptions = {}
    /\ occurrences = {}
    /\ result = Result("none", "nil", 0)
    /\ mux = {}
    /\ req = NoRequest
    /\ resp = NoResponse
    /\ dist = {}
    /\ proc = NotStarted
    /\ script = ScriptStart

ImageOnly ==
    UNCHANGED << phase, initStep, tables, nextID, events, exceptions, occurrences, result,
                 mux, req, resp, dist, proc >>

Without(seq, m) == SelectSeq(seq, LAMBDA x : x # m)
Mounted(m) == \E i \in 1..Len(script.mounts) : script.mounts[i] = m

\* The shell exits with the status: the EXIT trap, if set, runs cleanup first.
ExitWith(code) ==
    IF script.trap
      THEN [script EXCEPT !.pc = "cleanup", !.clean = 1, !.inTrap = TRUE, !.status = code,
                          !.failed = Ptr(code), !.cleanups = @ + 1]
      ELSE [script EXCEPT !.pc = "exited", !.failed = Ptr(code), !.exit = Ptr(code)]

\* A command of main or mount_image succeeds.
StepOk ==
    /\ script.pc = "main"
    /\ script.step <= Len(MainSteps)
    /\ LET s == MainSteps[script.step]
           next == [script EXCEPT !.step = @ + 1, !.status = 0]
       IN  /\ s.cmd # "cleanup"
           /\ script' =
                IF s.cmd = "losetup" THEN [next EXCEPT !.loop = TRUE]
                ELSE IF s.cmd = "mount"
                  THEN [next EXCEPT !.mounts = Append(@, s.at), !.history = Append(@, s.at)]
                ELSE IF s.cmd = "trap - EXIT" THEN [next EXCEPT !.trap = FALSE]
                ELSE next
    /\ ImageOnly

\* A command fails under set -e, or the partitions check runs exit 1.
StepFails(code) ==
    /\ script.pc = "main"
    /\ script.step <= Len(MainSteps)
    /\ MainSteps[script.step].cmd \notin { "cleanup", "trap - EXIT" }
    /\ MainSteps[script.step].cmd = "partitions" => code = 1
    /\ script' = ExitWith(code)
    /\ ImageOnly

\* main reaches its last line: the script exits 0.
ScriptEnd ==
    /\ script.pc = "main"
    /\ script.step = Len(MainSteps) + 1
    /\ script' = [ExitWith(0) EXCEPT !.failed = Nil]
    /\ ImageOnly

\* main calls cleanup: $? is 0 there.
CallCleanup ==
    /\ script.pc = "main"
    /\ script.step <= Len(MainSteps)
    /\ MainSteps[script.step].cmd = "cleanup"
    /\ script' = [script EXCEPT !.pc = "cleanup", !.clean = 1, !.inTrap = FALSE,
                                !.status = 0, !.cleanups = @ + 1]
    /\ ImageOnly

\* One round of cleanup's loop: umount -l if the path is a mount point.
CleanupUnmount ==
    /\ script.pc = "cleanup"
    /\ script.clean <= Len(CleanupMounts)
    /\ LET m == CleanupMounts[script.clean]
       IN  script' = IF Mounted(m)
                       THEN [script EXCEPT !.clean = @ + 1, !.mounts = Without(@, m),
                                           !.undone = Append(@, m)]
                       ELSE [script EXCEPT !.clean = @ + 1]
    /\ ImageOnly

\* The end of cleanup: losetup -d if LOOP_DEV is set, then return $exit_code;
\* in the trap the shell then exits with the status it was exiting with.
CleanupDetach ==
    /\ script.pc = "cleanup"
    /\ script.clean = Len(CleanupMounts) + 1
    /\ LET detached == IF script.loop
                         THEN [script EXCEPT !.loop = FALSE,
                                             !.undone = Append(@, << "losetup -d" >>)]
                         ELSE script
       IN  script' = IF script.inTrap
                       THEN [detached EXCEPT !.pc = "exited", !.clean = 0,
                                             !.exit = Ptr(script.status)]
                       ELSE [detached EXCEPT !.pc = "main", !.clean = 0, !.step = @ + 1]
    /\ ImageOnly

NextImage ==
    \/ StepOk
    \/ \E code \in FailCodes : StepFails(code)
    \/ ScriptEnd
    \/ CallCleanup
    \/ CleanupUnmount
    \/ CleanupDetach

SpecImage == InitImage /\ [][NextImage]_vars

Reverse(seq) == [i \in 1..Len(seq) |-> seq[Len(seq) + 1 - i]]
Pos(seq, x) == CHOOSE i \in 1..Len(seq) : seq[i] = x

\* The mount points cleanup has unmounted, in the order of the umount calls.
Unmounts == SelectSeq(script.undone, LAMBDA x : x # << "losetup -d" >>)

\* The script has exited, and mount_image had started before.
ExitedAfterMountImage == script.pc = "exited" /\ script.step >= MountImageStep

\* losetup had attached the loop device.
Attached == script.step > MountImageStep

\* cleanup ran once, left nothing mounted or attached, detached last, and the
\* script exited with the status it was exiting with.
Released ==
    /\ script.mounts = << >>
    /\ ~ script.loop
    /\ script.cleanups = 1
    /\ Attached => /\ script.undone # << >>
                   /\ script.undone[Len(script.undone)] = << "losetup -d" >>
    /\ Len(Unmounts) = Len(script.undone) - (IF Attached THEN 1 ELSE 0)
    /\ script.exit = IF script.failed = Nil THEN Ptr(0) ELSE script.failed

LiesOn(a, b) ==
    \/ Len(b) < Len(a) /\ SubSeq(a, 1, Len(b)) = b
    \/ a = Firmware /\ b = Boot

MaxInflight == 2
ShutdownSeconds == 10

\* main before database.Open. pc is main's position, goroutine that of the
\* ListenAndServe goroutine, gerr what ListenAndServe returned, shut whether
\* httpSrv.Shutdown has been called, waited the seconds Shutdown has waited.
ProcStart ==
    [pc |-> "start", signal |-> FALSE, conn |-> "none", goroutine |-> "none", gerr |-> "",
     listener |-> "none", shut |-> FALSE, inflight |-> 0, waited |-> 0, log |-> << >>,
     exit |-> "running", cause |-> ""]

InitMain ==
    /\ phase = "init"
    /\ initStep = 0
    /\ tables = {}
    /\ nextID = 0
    /\ events = {}
    /\ exceptions = {}
    /\ occurrences = {}
    /\ result = Result("none", "nil", 0)
    /\ mux = {}
    /\ req = NoRequest
    /\ resp = NoResponse
    /\ dist = {}
    /\ proc = ProcStart
    /\ script = NotStarted

MainOnly ==
    UNCHANGED << phase, initStep, tables, nextID, events, exceptions, occurrences, result,
                 mux, req, resp, dist, script >>

Running == proc.exit = "running"

\* log.Fatal / log.Fatalf: os.Exit(1), no deferred call runs.
Fatal(cause) == [proc EXCEPT !.exit = "fatal", !.cause = cause]

\* SIGINT or SIGTERM: rootCtx is cancelled.
Signal ==
    /\ Running /\ ~ proc.signal
    /\ proc' = [proc EXCEPT !.signal = TRUE]
    /\ MainOnly

\* godotenv.Load, findFrontendDist, database.Open.
MainOpen ==
    /\ Running /\ proc.pc = "start"
    /\ \/ proc' = [proc EXCEPT !.pc = "opened", !.conn = "open"]
       \/ proc' = Fatal("open")
    /\ MainOnly

\* server.New(rootCtx, ...): initDatabase fails once rootCtx is cancelled.
MainNew ==
    /\ Running /\ proc.pc = "opened"
    /\ \/ ~ proc.signal /\ proc' = [proc EXCEPT !.pc = "created"]
       \/ proc' = Fatal("server.New")
    /\ MainOnly

\* go func() { ... httpSrv.ListenAndServe() ... }()
MainGo ==
    /\ Running /\ proc.pc = "created"
    /\ proc' = [proc EXCEPT !.pc = "waiting", !.goroutine = "spawned"]
    /\ MainOnly

\* ListenAndServe: http.ErrServerClosed at once if Shutdown was called
\* before; otherwise it listens, or fails to.
Listen ==
    /\ Running /\ proc.goroutine = "spawned"
    /\ \/ proc.shut /\ proc' = [proc EXCEPT !.goroutine = "returned", !.gerr = "ErrServerClosed"]
       \/ ~ proc.shut /\ proc' = [proc EXCEPT !.goroutine = "serving", !.listener = "open"]
       \/ ~ proc.shut /\ proc' = [proc EXCEPT !.goroutine = "returned", !.gerr = "EADDRINUSE"]
    /\ MainOnly

\* A slip in the goroutine's test: every error is fatal.
ListenFatalAnyError(err) == err # ""

\* err != nil && err != http.ErrServerClosed
ListenFatal(err) == err # "" /\ err # "ErrServerClosed"

\* The goroutine looks at what ListenAndServe returned.
GoroutineCheck ==
    /\ Running /\ proc.goroutine = "returned"
    /\ proc' = IF ListenFatal(proc.gerr)
                 THEN [Fatal("listen") EXCEPT !.goroutine = "done"]
                 ELSE [proc EXCEPT !.goroutine = "done"]
    /\ MainOnly

\* A connection is accepted and its request starts; a request ends.
Accept ==
    /\ Running /\ proc.listener = "open" /\ proc.inflight < MaxInflight
    /\ proc' = [proc EXCEPT !.inflight = @ + 1]
    /\ MainOnly

Finish ==
    /\ Running /\ proc.inflight > 0
    /\ proc' = [proc EXCEPT !.inflight = @ - 1]
    /\ MainOnly

\* <-rootCtx.Done(); log.Println("shutdown signal received")
MainSignalled ==
    /\ Running /\ proc.pc = "waiting" /\ proc.signal
    /\ proc' = [proc EXCEPT !.pc = "signalled", !.log = Append(@, "shutdown signal received")]
    /\ MainOnly

\* httpSrv.Shutdown(shutdownCtx) is entered: the listener is closed, and a
\* ListenAndServe that was serving returns http.ErrServerClosed.
ShutdownBegin ==
    /\ Running /\ proc.pc = "signalled"
    /\ proc' = [proc EXCEPT
                  !.pc = "draining", !.shut = TRUE, !.waited = 0,
                  !.listener = IF @ = "open" THEN "closed" ELSE @,
                  !.goroutine = IF @ = "serving" THEN "returned" ELSE @,
                  !.gerr = IF proc.goroutine = "serving" THEN "ErrServerClosed" ELSE @]
    /\ MainOnly

\* A second passes while Shutdown waits for the requests in flight.
Tick ==
    /\ Running /\ proc.pc = "draining"
    /\ proc.inflight > 0 /\ proc.waited < ShutdownSeconds
    /\ proc' = [proc EXCEPT !.waited = @ + 1]
    /\ MainOnly

\* Shutdown returns: nil when no request is in flight, the context's error
\* when the 10 seconds are over (logged as http shutdown error).
ShutdownReturns ==
    /\ Running /\ proc.pc = "draining"
    /\ \/ /\ proc.inflight = 0
          /\ proc' = [proc EXCEPT !.pc = "shutdown_returned"]
       \/ /\ proc.inflight > 0 /\ proc.waited = ShutdownSeconds
          /\ proc' = [proc EXCEPT !.pc = "shutdown_returned",
                                  !.log = Append(@, "http shutdown error")]
    /\ MainOnly

\* log.Println("shutdown complete")
MainComplete ==
    /\ Running /\ proc.pc = "shutdown_returned"
    /\ proc' = [proc EXCEPT !.pc = "deferred", !.log = Append(@, "shutdown complete")]
    /\ MainOnly

\* main returns: the deferred cancel(), conn.Close() and stop() run.
MainReturn ==
    /\ Running /\ proc.pc = "deferred"
    /\ proc' = [proc EXCEPT !.pc = "exited", !.conn = "closed", !.exit = "returned"]
    /\ MainOnly

NextMain ==
    \/ Signal
    \/ MainOpen
    \/ MainNew
    \/ MainGo
    \/ Listen
    \/ GoroutineCheck
    \/ Accept
    \/ Finish
    \/ MainSignalled
    \/ ShutdownBegin
    \/ Tick
    \/ ShutdownReturns
    \/ MainComplete
    \/ MainReturn

SpecMain == InitMain /\ [][NextMain]_vars

Logged(msg) == \E i \in 1..Len(proc.log) : proc.log[i] = msg

\* C25: after the signal the server stops accepting connections and waits
\* for the requests in flight for at most 10 seconds; 'shutdown complete'
\* is logged only after Shutdown has returned; the database connection is
\* closed only after that; and a ListenAndServe that returned
\* http.ErrServerClosed never aborts the process.
C25_GracefulShutdown ==
    /\ [](proc.shut => proc.signal /\ proc.listener # "open")
    /\ [][proc.shut => proc'.inflight <= proc.inflight]_vars
    /\ [](proc.waited <= ShutdownSeconds)
    /\ [][(proc.pc = "draining" /\ proc.waited = ShutdownSeconds)
            => proc'.pc # "draining" \/ proc'.waited = proc.waited]_vars
    /\ [](Logged("shutdown complete") => proc.pc \in { "deferred", "exited" })
    /\ [][(~ Logged("shutdown complete") /\ Logged("shutdown complete")')
            => proc.pc = "shutdown_returned"]_vars
    /\ [](proc.conn = "closed" => Logged("shutdown complete") /\ proc.pc = "exited")
    /\ [](proc.gerr = "ErrServerClosed" => proc.cause # "listen")
    /\ [](proc.cause = "listen" => proc.gerr = "EADDRINUSE")

\* Shutdown gave up after 10 seconds with a request still in flight; the
\* goroutine saw http.ErrServerClosed and ended; main logged and returned,
\* closing the database connection.
C25_Witness ==
    /\ proc.exit = "returned"
    /\ proc.conn = "closed"
    /\ proc.goroutine = "done" /\ proc.gerr = "ErrServerClosed"
    /\ proc.waited = ShutdownSeconds
    /\ proc.log = << "shutdown signal received", "http shutdown error", "shutdown complete" >>

====
